---- MODULE Spec2Model ----
(***************************************************************************)
(* A model of the thai-map application: src/App.tsx (the hub and point     *)
(* collections, their handlers, the coverage classification pass and the   *)
(* import pipeline) and src/services/geminiService.ts (the province        *)
(* resolver).                                                              *)
(*                                                                         *)
(* Representation.                                                         *)
(*  - A string is a sequence of tokens; a blank is the token " ", and the  *)
(*    empty string is << >>.  Template literals are concatenations.        *)
(*  - Coordinates lie on one meridian (every longitude is the same) and a      *)
(*    latitude is counted in metres of meridian arc, so that the haversine *)
(*    distance of two coordinates is the absolute difference of their      *)
(*    latitudes.  Numbers are integers; a decimal literal of the import    *)
(*    text is "<n>.0" and String(n) is "<n>".                              *)
(*  - An optional string that is absent is the value undefined; the        *)
(*    optional flag customLabel is FALSE when absent.                      *)
(***************************************************************************)
EXTENDS Integers, Sequences, FiniteSets, TLC

VARIABLES
    markers,            \* App.tsx:24   the hub collection
    bulkPins,           \* App.tsx:25   the point collection (source fields only)
    processedBulkPins,  \* App.tsx:58   the memoised classification pass
    selectedCategory,   \* App.tsx:27
    isGeocoding,        \* App.tsx:29   the busy flag
    pending,            \* the suspended handleImportBulk (at its await), or NoCall
    localStorage,       \* App.tsx:42-43 the two persisted entries
    IS_MOCK,            \* part_000:5   whether the resolver runs without a provider
    lastOp              \* the handler that ran last, with its inputs

vars == <<markers, bulkPins, processedBulkPins, selectedCategory, isGeocoding,
          pending, localStorage, IS_MOCK, lastOp>>

----------------------------------------------------------------------------
(* Bounds of the model *)

MaxMarkers == 2
MaxPins == 2

----------------------------------------------------------------------------
(* Strings *)

undefined == <<"\\undefined">>
undefinedNum == -1

WS == {" "}

RECURSIVE trimStart(_)
trimStart(s) ==
    IF s # << >> /\ Head(s) \in WS THEN trimStart(Tail(s)) ELSE s

RECURSIVE trimEnd(_)
trimEnd(s) ==
    IF s # << >> /\ s[Len(s)] \in WS THEN trimEnd(SubSeq(s, 1, Len(s) - 1)) ELSE s

trim(s) == trimEnd(trimStart(s))

\* A string is truthy unless it is empty; undefined is falsy.
truthy(s) == s # undefined /\ s # << >>

String(n) == <<ToString(n)>>

RECURSIVE join(_, _)
join(list, sep) ==
    IF list = << >> THEN << >>
    ELSE IF Len(list) = 1 THEN list[1]
    ELSE list[1] \o sep \o join(Tail(list), sep)

----------------------------------------------------------------------------
(* GeoMath *)

Infinity == 999999999

Abs(x) == IF x < 0 THEN -x ELSE x

\* On one meridian (lon1 = lon2) the haversine term a is sin^2(dphi/2), c is
\* |dphi| and the result R * |dphi|: the arc between the two latitudes.
getDistance(lat1, lon1, lat2, lon2) == Abs(lat2 - lat1)

----------------------------------------------------------------------------
(* The classification pass *)

CoveredRadius == 50000
NearRadius == 100000

\* Mutant of scanMarkers: a hub covers only strictly inside its radius.
RECURSIVE scanMarkers_strict(_, _, _)
scanMarkers_strict(pin, ms, k) ==
    IF k = 0 THEN [nearestDist |-> Infinity, nearestZ |-> undefined,
                   coveringZones |-> << >>]
    ELSE LET acc == scanMarkers_strict(pin, ms, k - 1)
             m == ms[k]
             d == getDistance(pin.lat, pin.lng, m.lat, m.lng)
             cz == IF d < CoveredRadius THEN Append(acc.coveringZones, m.label)
                   ELSE acc.coveringZones
         IN IF d < acc.nearestDist
            THEN [nearestDist |-> d, nearestZ |-> m.label, coveringZones |-> cz]
            ELSE [acc EXCEPT !.coveringZones = cz]

\* Mutant of scanMarkers: a hub at the same distance replaces the nearest one.
RECURSIVE scanMarkers_lastWins(_, _, _)
scanMarkers_lastWins(pin, ms, k) ==
    IF k = 0 THEN [nearestDist |-> Infinity, nearestZ |-> undefined,
                   coveringZones |-> << >>]
    ELSE LET acc == scanMarkers_lastWins(pin, ms, k - 1)
             m == ms[k]
             d == getDistance(pin.lat, pin.lng, m.lat, m.lng)
             cz == IF d <= CoveredRadius THEN Append(acc.coveringZones, m.label)
                   ELSE acc.coveringZones
         IN IF d <= acc.nearestDist
            THEN [nearestDist |-> d, nearestZ |-> m.label, coveringZones |-> cz]
            ELSE [acc EXCEPT !.coveringZones = cz]

\* The markers.forEach of one pin: the accumulator after the first k markers.
RECURSIVE scanMarkers(_, _, _)
scanMarkers(pin, ms, k) ==
    IF k = 0 THEN [nearestDist |-> Infinity, nearestZ |-> undefined,
                   coveringZones |-> << >>]
    ELSE LET acc == scanMarkers(pin, ms, k - 1)
             m == ms[k]
             d == getDistance(pin.lat, pin.lng, m.lat, m.lng)
             cz == IF d <= CoveredRadius THEN Append(acc.coveringZones, m.label)
                   ELSE acc.coveringZones
         IN IF d < acc.nearestDist
            THEN [nearestDist |-> d, nearestZ |-> m.label, coveringZones |-> cz]
            ELSE [acc EXCEPT !.coveringZones = cz]

\* Mutant of coverageStatusOf: the primary radius itself is not covered.
coverageStatusOf_strict(nearestDist) ==
    IF nearestDist < CoveredRadius THEN "covered"
    ELSE IF nearestDist <= NearRadius THEN "near"
    ELSE "none"

coverageStatusOf(nearestDist) ==
    IF nearestDist <= CoveredRadius THEN "covered"
    ELSE IF nearestDist <= NearRadius THEN "near"
    ELSE "none"

\* new Map<string, number>(): a function whose domain is the keys set so far.
MapNew == << >>
MapGet(map, key) == IF key \in DOMAIN map THEN map[key] ELSE undefinedNum
MapSet(map, key, value) ==
    [x \in (DOMAIN map) \cup {key} |-> IF x = key THEN value ELSE map[x]]

\* Mutant of finalLabelOf: the customized flag is not consulted.
finalLabelOf_ignoreCustom(pin, provinceCounts) ==
    IF truthy(pin.province)
    THEN LET got == MapGet(provinceCounts, pin.province)
             currentCount == IF got = undefinedNum \/ got = 0 THEN 0 ELSE got
         IN IF currentCount = 0 THEN pin.province
            ELSE pin.province \o <<" ">> \o String(currentCount + 1)
    ELSE pin.label

\* Lines 84-89: the label of a pin under the running provinceCounts, and the
\* counts after it.
finalLabelOf(pin, provinceCounts) ==
    IF truthy(pin.province) /\ ~pin.customLabel
    THEN LET got == MapGet(provinceCounts, pin.province)
             currentCount == IF got = undefinedNum \/ got = 0 THEN 0 ELSE got
         IN IF currentCount = 0 THEN pin.province
            ELSE pin.province \o <<" ">> \o String(currentCount + 1)
    ELSE pin.label

\* Mutant of countsAfter: the count of a province is never advanced.
countsAfter_noIncrement(pin, provinceCounts) == provinceCounts

countsAfter(pin, provinceCounts) ==
    IF truthy(pin.province) /\ ~pin.customLabel
    THEN LET got == MapGet(provinceCounts, pin.province)
             currentCount == IF got = undefinedNum \/ got = 0 THEN 0 ELSE got
         IN MapSet(provinceCounts, pin.province, currentCount + 1)
    ELSE provinceCounts

\* A row of the pass.  distanceToNearest is counted in thousandths of a
\* kilometre, in which nearestDist / 1000 is the number nearestDist.

\* Mutant of classifyPin: the distance is converted without the Infinity test.
classifyPin_noInfinityTest(pin, ms, provinceCounts) ==
    LET acc == scanMarkers(pin, ms, Len(ms))
    IN [id |-> pin.id, lat |-> pin.lat, lng |-> pin.lng, color |-> pin.color,
        category |-> pin.category, province |-> pin.province,
        customLabel |-> pin.customLabel,
        label |-> finalLabelOf(pin, provinceCounts),
        coverageStatus |-> coverageStatusOf(acc.nearestDist),
        distanceToNearest |-> acc.nearestDist,
        nearestZone |-> acc.nearestZ,
        allZones |-> join(acc.coveringZones, <<";", " ">>)]

classifyPin(pin, ms, provinceCounts) ==
    LET acc == scanMarkers(pin, ms, Len(ms))
    IN [id |-> pin.id, lat |-> pin.lat, lng |-> pin.lng, color |-> pin.color,
        category |-> pin.category, province |-> pin.province,
        customLabel |-> pin.customLabel,
        label |-> finalLabelOf(pin, provinceCounts),
        coverageStatus |-> coverageStatusOf(acc.nearestDist),
        distanceToNearest |-> IF acc.nearestDist = Infinity THEN undefinedNum
                              ELSE acc.nearestDist,
        nearestZone |-> acc.nearestZ,
        allZones |-> join(acc.coveringZones, <<";", " ">>)]

\* bulkPins.map over the first k pins: the rows produced and the counts reached.
RECURSIVE mapPins(_, _, _)
mapPins(pins, ms, k) ==
    IF k = 0 THEN [rows |-> << >>, provinceCounts |-> MapNew]
    ELSE LET before == mapPins(pins, ms, k - 1)
         IN [rows |-> Append(before.rows,
                             classifyPin(pins[k], ms, before.provinceCounts)),
             provinceCounts |-> countsAfter(pins[k], before.provinceCounts)]

computeProcessedBulkPins(pins, ms) == mapPins(pins, ms, Len(pins)).rows

\* Mutant of useMemoProcessed: the dependency list is [bulkPins] only.
useMemoProcessed_pinsOnly(old, pinsChanged, markersChanged, pins, ms) ==
    IF pinsChanged THEN computeProcessedBulkPins(pins, ms) ELSE old

\* useMemo(..., [bulkPins, markers]): the pass runs again when either
\* collection is a new array, and the memoised value is kept otherwise.
useMemoProcessed(old, pinsChanged, markersChanged, pins, ms) ==
    IF pinsChanged \/ markersChanged THEN computeProcessedBulkPins(pins, ms)
    ELSE old

----------------------------------------------------------------------------
(* CoordinateTextParser: handleImportBulk, lines 130-152 *)

\* The numbers the decimal literals of the model's texts denote.
Numbers == {0, 100, 49999, 50000, 99999, 100000, 100001}

decimalLiteral(n) == ToString(n) \o ".0"

\* -?\d+\.\d+ matches exactly the decimal literals.
IsDecimal(tok) == \E n \in Numbers : decimalLiteral(n) = tok

parseFloat(tok) == CHOOSE n \in Numbers : decimalLiteral(n) = tok

\* importText.split('\n')
RECURSIVE split(_)
split(text) ==
    IF \E i \in 1..Len(text) : text[i] = "\n"
    THEN LET i == CHOOSE i \in 1..Len(text) :
                    /\ text[i] = "\n"
                    /\ \A j \in 1..(i - 1) : text[j] # "\n"
         IN <<SubSeq(text, 1, i - 1)>> \o split(SubSeq(text, i + 1, Len(text)))
    ELSE <<text>>

\* The first index from k on that holds no whitespace (Len + 1 when none does).
RECURSIVE skipWS(_, _)
skipWS(line, k) ==
    IF k <= Len(line) /\ line[k] \in WS THEN skipWS(line, k + 1) ELSE k

\* /@(-?\d+\.\d+),(-?\d+\.\d+)/ at index i: "@", a decimal, ",", a decimal.
urlMatchAt(line, i) ==
    /\ i + 3 <= Len(line)
    /\ line[i] = "@"
    /\ IsDecimal(line[i + 1])
    /\ line[i + 2] = ","
    /\ IsDecimal(line[i + 3])

\* /(-?\d+\.\d+)\s*,\s*(-?\d+\.\d+)/ at index i: the index of the second
\* decimal, or 0 when the pattern does not match there.
latLngMatchAt(line, i) ==
    IF i <= Len(line) /\ IsDecimal(line[i])
    THEN LET c == skipWS(line, i + 1) IN
         IF c <= Len(line) /\ line[c] = ","
         THEN LET j == skipWS(line, c + 1) IN
              IF j <= Len(line) /\ IsDecimal(line[j]) THEN j ELSE 0
         ELSE 0
    ELSE 0

\* line.match(...): the index of the leftmost match (0 when there is none).
urlMatch(line) ==
    IF \E i \in 1..Len(line) : urlMatchAt(line, i)
    THEN CHOOSE i \in 1..Len(line) :
            urlMatchAt(line, i) /\ \A j \in 1..(i - 1) : ~urlMatchAt(line, j)
    ELSE 0

latLngMatch(line) ==
    IF \E i \in 1..Len(line) : latLngMatchAt(line, i) # 0
    THEN CHOOSE i \in 1..Len(line) :
            latLngMatchAt(line, i) # 0 /\ \A j \in 1..(i - 1) : latLngMatchAt(line, j) = 0
    ELSE 0

\* .replace(/,\s*$/, ''): a comma followed by whitespace only, to the end.
stripTrailingComma(s) ==
    IF \E k \in 1..Len(s) : s[k] = "," /\ \A j \in (k + 1)..Len(s) : s[j] \in WS
    THEN LET k == CHOOSE k \in 1..Len(s) :
                    s[k] = "," /\ \A j \in (k + 1)..Len(s) : s[j] \in WS
         IN SubSeq(s, 1, k - 1)
    ELSE s

NoPoint == [ok |-> FALSE, lat |-> 0, lng |-> 0, name |-> undefined]

\* The body of lines.forEach for one line.
parseLine(line) ==
    IF trim(line) = << >> THEN NoPoint
    ELSE LET u == urlMatch(line)
             l == latLngMatch(line)
         IN IF u # 0
            THEN [ok |-> TRUE, lat |-> parseFloat(line[u + 1]),
                  lng |-> parseFloat(line[u + 3]), name |-> undefined]
            ELSE IF l # 0
            THEN LET before == trim(stripTrailingComma(trim(SubSeq(line, 1, l - 1))))
                 IN [ok |-> TRUE, lat |-> parseFloat(line[l]),
                     lng |-> parseFloat(line[latLngMatchAt(line, l)]),
                     name |-> IF before # << >> THEN before ELSE undefined]
            ELSE NoPoint

RECURSIVE parseLines(_)
parseLines(lines) ==
    IF lines = << >> THEN << >>
    ELSE LET p == parseLine(Head(lines))
         IN (IF p.ok THEN <<[lat |-> p.lat, lng |-> p.lng, name |-> p.name]>>
             ELSE << >>) \o parseLines(Tail(lines))

\* newPointsRaw of an import text.
newPointsRawOf(importText) == parseLines(split(importText))

----------------------------------------------------------------------------
(* ProvinceResolver: batchIdentifyProvinces *)

\* A JavaScript value the resolver can hand back: an array of strings, null,
\* or any other parsed JSON value (an object, a number, a boolean).
JsArray(items) == [type |-> "array", items |-> items]
JsNull == [type |-> "null", items |-> << >>]
JsOther == [type |-> "other", items |-> << >>]

UnknownProvince == <<"Unknown Province">>

\* n.toFixed(3) of an integer-valued number.
toFixed3(n) == <<ToString(n) \o ".000">>

\* part_000:24-26 ("degN" and "degE" are the degree sign followed by N and E)
mockBatchIdentifyProvinces(points) ==
    [i \in 1..Len(points) |->
        toFixed3(points[i].lat) \o <<"degN", " ">> \o toFixed3(points[i].lng) \o <<"degE">>]

\* What ai.models.generateContent does: it rejects ("reject"), or resolves with
\* a response whose text is absent or empty ("notext"), is no JSON
\* ("unparsable"), or is the JSON text of a value ("json").
Reject == [kind |-> "reject", value |-> JsOther]
NoText == [kind |-> "notext", value |-> JsOther]
Unparsable == [kind |-> "unparsable", value |-> JsOther]
JsonText(v) == [kind |-> "json", value |-> v]

\* geminiService.ts:36-63 and part_000:58-86 (mock is IS_MOCK of part_000;
\* geminiService.ts has no mock branch).
batchIdentifyProvinces(points, mock, response) ==
    IF Len(points) = 0 THEN JsArray(<< >>)
    ELSE IF mock THEN JsArray(mockBatchIdentifyProvinces(points))
    ELSE IF response.kind = "reject" \/ response.kind = "unparsable"
         THEN JsArray([i \in 1..Len(points) |-> UnknownProvince])
    ELSE IF response.kind = "notext" THEN JsArray(<< >>)
    ELSE response.value

----------------------------------------------------------------------------
(* Persistence: load, and the two effects of lines 42-43 *)

\* A storage entry: absent, a text that is no JSON, the JSON text of an array
\* of entities (kind "json"), the JSON text null, or the JSON text of any
\* other value (an object, a number, a string, a boolean).
Missing == [kind |-> "missing", value |-> << >>]
Invalid == [kind |-> "invalid", value |-> << >>]
StoredNull == [kind |-> "null", value |-> << >>]
StoredOther == [kind |-> "other", value |-> << >>]

\* A value that is no array, as load hands it back.
NotAnArray == [type |-> "other"]

\* JSON.stringify of an object: a member whose value is undefined is left out.
stringifyMarker(m) ==
    [k \in {"id", "lat", "lng", "radius", "outerRadius", "label"} |-> m[k]]

\* Mutant of stringifyPin: the customized flag is not written.
stringifyPin_noFlag(p) ==
    LET keys == {"id", "lat", "lng", "color", "category", "label"}
                \cup (IF p.province # undefined THEN {"province"} ELSE {})
    IN [k \in keys |-> p[k]]

stringifyPin(p) ==
    LET keys == {"id", "lat", "lng", "color", "category", "label"}
                \cup (IF p.province # undefined THEN {"province"} ELSE {})
                \cup (IF p.customLabel THEN {"customLabel"} ELSE {})
    IN [k \in keys |-> p[k]]

\* JSON.stringify(markers) and JSON.stringify(bulkPins)
stringifyMarkers(list) ==
    [kind |-> "json", value |-> [i \in 1..Len(list) |-> stringifyMarker(list[i])]]

stringifyPins(list) ==
    [kind |-> "json", value |-> [i \in 1..Len(list) |-> stringifyPin(list[i])]]

\* Reading a stored object: a member that is left out reads as undefined.
readMarker(o) ==
    [id |-> o.id, lat |-> o.lat, lng |-> o.lng, radius |-> o.radius,
     outerRadius |-> o.outerRadius, label |-> o.label]

readPin(o) ==
    [id |-> o.id, lat |-> o.lat, lng |-> o.lng, color |-> o.color,
     category |-> o.category, label |-> o.label,
     province |-> IF "province" \in DOMAIN o THEN o.province ELSE undefined,
     customLabel |-> IF "customLabel" \in DOMAIN o THEN o.customLabel ELSE FALSE]

\* Whether load(key, []) hands back an array: JSON.parse(text ?? 'null') ?? []
\* is [] when the entry is absent or its text is null, the catch gives [] when
\* the text is no JSON, and any other parsed value is handed back as it is.
loadsArray(entry) == entry.kind # "other"

\* load(key, []) of lines 19-21.
loadMarkers(entry) ==
    IF entry.kind = "json"
    THEN [i \in 1..Len(entry.value) |-> readMarker(entry.value[i])]
    ELSE IF entry.kind = "other" THEN NotAnArray
    ELSE << >>

loadPins(entry) ==
    IF entry.kind = "json"
    THEN [i \in 1..Len(entry.value) |-> readPin(entry.value[i])]
    ELSE IF entry.kind = "other" THEN NotAnArray
    ELSE << >>

----------------------------------------------------------------------------
(* State *)

PinCategory == {"Outzone", "Request", "Existing", "Pending"}

CATEGORY_MAP ==
    [c \in PinCategory |->
        CASE c = "Outzone" -> [label |-> "Site Outzone", color |-> "#64748b"]
          [] c = "Request" -> [label |-> "Site Request", color |-> "#eab308"]
          [] c = "Existing" -> [label |-> "Existing Sites", color |-> "#16a34a"]
          [] c = "Pending" -> [label |-> "Site Pending", color |-> "#2563eb"]]
\* (the display label of Pending is in Thai in the source)

\* The suspended call: the raw points it parsed, and the importText, the
\* selectedCategory and the bulkPins of the render whose closure it is.
NoCall == [active |-> FALSE, newPointsRaw |-> << >>, category |-> "Existing",
           bulkPins |-> << >>, importText |-> << >>]

\* The handler that ran last, with the id it was given (0 when it takes none)
\* and, for a rename, the name typed; for an import that resumed, the number of
\* points it sent to the resolver, the provider's answer and what the resolver
\* returned, and whether the point collection changed while it was suspended;
\* for an import that started, its text; for an export, the file's content.
NoOp == [op |-> "mount", id |-> 0, name |-> << >>, n |-> 0,
         response |-> NoText, result |-> JsOther, importText |-> << >>,
         changedMeanwhile |-> FALSE, content |-> << >>]

Op(op, id) == [NoOp EXCEPT !.op = op, !.id = id]

OpNamed(op, id, name) == [NoOp EXCEPT !.op = op, !.id = id, !.name = name]

\* Math.random().toString(36).substr(2, 9): an id no entity of the collection
\* has.  Ids are opaque and the handlers only compare them for equality, so a
\* state stands for all its renamings of ids, and the model keeps the one in
\* which an entity's id is its place in its collection: a new entity gets the
\* next place, and renumber restores the numbering after a removal.
freshId(list) == Len(list) + 1

renumber(list) == [k \in 1..Len(list) |-> [list[k] EXCEPT !.id = k]]

hasId(list, id) == \E k \in 1..Len(list) : list[k].id = id

\* prev.filter(e => e.id !== id)
filterOutId(list, id) == renumber(SelectSeq(list, LAMBDA e : e.id # id))

\* A render after the handler: the memoised pass and the two storage effects,
\* each of which runs when its collection is a new array.
Render(ms, pins, markersChanged, pinsChanged) ==
    /\ processedBulkPins' =
          useMemoProcessed(processedBulkPins, pinsChanged, markersChanged, pins, ms)
    /\ localStorage' =
          [thaimap_markers |-> IF markersChanged
                               THEN stringifyMarkers(ms)
                               ELSE localStorage.thaimap_markers,
           thaimap_pins |-> IF pinsChanged
                            THEN stringifyPins(pins)
                            ELSE localStorage.thaimap_pins]

StoredEntries == {Missing, Invalid, stringifyPins(<< >>)}

\* The first render throws a TypeError when a loaded collection is no array:
\* bulkPins.map (line 61) and markers.map (line 297) are no functions.
renderThrows(em, ep) == ~loadsArray(em) \/ ~loadsArray(ep)

\* The state after construction from the two stored entries: the initialisers
\* of lines 24-29, the first render and, when it returns, the two effects.  When
\* it throws, nothing is mounted and the entries stay as they were.
Mount(em, ep, mock) ==
    /\ markers = loadMarkers(em)
    /\ bulkPins = loadPins(ep)
    /\ selectedCategory = "Existing"
    /\ isGeocoding = FALSE
    /\ pending = NoCall
    /\ IS_MOCK = mock
    /\ IF renderThrows(em, ep)
       THEN /\ processedBulkPins = << >>
            /\ localStorage = [thaimap_markers |-> em, thaimap_pins |-> ep]
            /\ lastOp = Op("mountThrew", 0)
       ELSE /\ processedBulkPins = computeProcessedBulkPins(bulkPins, markers)
            /\ localStorage = [thaimap_markers |-> stringifyMarkers(markers),
                               thaimap_pins |-> stringifyPins(bulkPins)]
            /\ lastOp = NoOp

Init ==
    \E em \in StoredEntries, ep \in StoredEntries, mock \in BOOLEAN :
        Mount(em, ep, mock)

----------------------------------------------------------------------------
(* Hub handlers *)

\* Mutant of radiusName: the typed name is taken without trimming it.
radiusName_untrimmed(nextRadiusName, length) ==
    IF truthy(nextRadiusName) THEN nextRadiusName
    ELSE <<"Radius", " ", "Zone", " ">> \o String(length + 1)

\* Line 104: nextRadiusName.trim() || `Radius Zone ${markers.length + 1}`
radiusName(nextRadiusName, length) ==
    IF truthy(trim(nextRadiusName)) THEN trim(nextRadiusName)
    ELSE <<"Radius", " ", "Zone", " ">> \o String(length + 1)

\* Lines 103-115.
HandleAddRadiusMarker(lat, lng, nextRadiusName) ==
    /\ Len(markers) < MaxMarkers
    /\ LET name == radiusName(nextRadiusName, Len(markers))
           newMarker == [id |-> freshId(markers), lat |-> lat, lng |-> lng,
                         radius |-> 50000, outerRadius |-> 100000, label |-> name]
       IN /\ markers' = Append(markers, newMarker)
          /\ Render(markers', bulkPins, TRUE, FALSE)
          /\ lastOp' = OpNamed("addRadius", 0, nextRadiusName)
    /\ UNCHANGED <<bulkPins, selectedCategory, isGeocoding, pending, IS_MOCK>>

\* Mutant of renameRejected: the name is tested without trimming it.
renameRejected_noTrim(name) == ~truthy(name)

\* Lines 118 and 226: if (!name.trim()) return;
renameRejected(name) == ~truthy(trim(name))

renameMarkers(ms, id, editingZoneName) ==
    [k \in 1..Len(ms) |->
        IF ms[k].id = id THEN [ms[k] EXCEPT !.label = editingZoneName] ELSE ms[k]]

\* Lines 117-122; the confirm button exists for a hub of the collection.
HandleRenameRadius(id, editingZoneName) ==
    /\ hasId(markers, id)
    /\ IF renameRejected(editingZoneName)
       THEN /\ lastOp' = OpNamed("renameRadiusRejected", id, editingZoneName)
            /\ UNCHANGED <<markers, processedBulkPins, localStorage>>
       ELSE /\ markers' = renameMarkers(markers, id, editingZoneName)
            /\ Render(markers', bulkPins, TRUE, FALSE)
            /\ lastOp' = OpNamed("renameRadius", id, editingZoneName)
    /\ UNCHANGED <<bulkPins, selectedCategory, isGeocoding, pending, IS_MOCK>>

\* Line 232.
HandleRemoveRadius(id) ==
    /\ hasId(markers, id)
    /\ markers' = filterOutId(markers, id)
    /\ Render(markers', bulkPins, TRUE, FALSE)
    /\ lastOp' = Op("removeRadius", id)
    /\ UNCHANGED <<bulkPins, selectedCategory, isGeocoding, pending, IS_MOCK>>

----------------------------------------------------------------------------
(* Point handlers *)

renamePins(pins, id, editingPinName) ==
    [k \in 1..Len(pins) |->
        IF pins[k].id = id
        THEN [pins[k] EXCEPT !.label = editingPinName, !.customLabel = TRUE]
        ELSE pins[k]]

\* Lines 225-230.
HandleRenamePin(id, editingPinName) ==
    /\ hasId(bulkPins, id)
    /\ IF renameRejected(editingPinName)
       THEN /\ lastOp' = OpNamed("renamePinRejected", id, editingPinName)
            /\ UNCHANGED <<bulkPins, processedBulkPins, localStorage>>
       ELSE /\ bulkPins' = renamePins(bulkPins, id, editingPinName)
            /\ Render(markers, bulkPins', FALSE, TRUE)
            /\ lastOp' = OpNamed("renamePin", id, editingPinName)
    /\ UNCHANGED <<markers, selectedCategory, isGeocoding, pending, IS_MOCK>>

\* Line 233.
HandleRemovePin(id) ==
    /\ hasId(bulkPins, id)
    /\ bulkPins' = filterOutId(bulkPins, id)
    /\ Render(markers, bulkPins', FALSE, TRUE)
    /\ lastOp' = Op("removePin", id)
    /\ UNCHANGED <<markers, selectedCategory, isGeocoding, pending, IS_MOCK>>

\* Line 343: a category button.
SetSelectedCategory(cat) ==
    /\ selectedCategory # cat
    /\ selectedCategory' = cat
    /\ lastOp' = Op("setCategory", 0)
    /\ UNCHANGED <<markers, bulkPins, processedBulkPins, isGeocoding, pending,
                   localStorage, IS_MOCK>>

----------------------------------------------------------------------------
(* The summary export: handleExportSummary, lines 191-211 *)

summaryHeader ==
    <<"Zone Name,Center Latitude,Center Longitude,Total Existing,Total Request,Total Pending,Total Outzone,Total Covered (50km)", "\n">>

\* Mutant of coveredPins: the points whose nearest hub carries the hub's label.
coveredPins_byNearestZone(m, pins) ==
    SelectSeq(pins, LAMBDA p : p.coverageStatus = "covered" /\ p.nearestZone = m.label)

\* Lines 195-198.
coveredPins(m, pins) ==
    SelectSeq(pins, LAMBDA p : getDistance(p.lat, p.lng, m.lat, m.lng) <= 50000)

\* coveredPins.filter(p => p.category === category).length
countOf(pins, category) == Len(SelectSeq(pins, LAMBDA p : p.category = category))

\* Lines 194-207: the row of one hub.
summaryRow(m, pins) ==
    LET covered == coveredPins(m, pins)
    IN <<"\"">> \o m.label \o <<"\"", ",">> \o String(m.lat) \o <<",">>
       \o String(m.lng) \o <<",">> \o String(countOf(covered, "Existing")) \o <<",">>
       \o String(countOf(covered, "Request")) \o <<",">>
       \o String(countOf(covered, "Pending")) \o <<",">>
       \o String(countOf(covered, "Outzone")) \o <<",">> \o String(Len(covered))

\* header + rows, the content of the downloaded file.
summaryContent(ms, pins) ==
    summaryHeader \o join([i \in 1..Len(ms) |-> summaryRow(ms[i], pins)], <<"\n">>)

\* The button is rendered when there are hubs (line 273).
HandleExportSummary ==
    /\ Len(markers) > 0
    /\ lastOp' = [Op("exportSummary", 0) EXCEPT
                     !.content = summaryContent(markers, processedBulkPins)]
    /\ UNCHANGED <<markers, bulkPins, processedBulkPins, selectedCategory,
                   isGeocoding, pending, localStorage, IS_MOCK>>

----------------------------------------------------------------------------
(* The import pipeline: handleImportBulk, lines 129-180 *)

\* provinces[provinceIdx] on what the resolver handed back (an index from 0):
\* an element of the array, undefined past its end or on a non-array value.
\* (On null the access throws: see importThrows.)

\* Mutant of indexInto: the sentinel stands for a missing element.
indexInto_sentinel(provinces, provinceIdx) ==
    IF provinces.type = "array" /\ provinceIdx + 1 <= Len(provinces.items)
    THEN provinces.items[provinceIdx + 1]
    ELSE UnknownProvince

indexInto(provinces, provinceIdx) ==
    IF provinces.type = "array" /\ provinceIdx + 1 <= Len(provinces.items)
    THEN provinces.items[provinceIdx + 1]
    ELSE undefined

\* Lines 161-175 over the first k raw points: the pins built, and provinceIdx.
RECURSIVE mapRaw(_, _, _, _, _)
mapRaw(raw, k, provinces, category, prev) ==
    IF k = 0 THEN [pins |-> << >>, provinceIdx |-> 0]
    ELSE LET before == mapRaw(raw, k - 1, provinces, category, prev)
             r == raw[k]
             named == truthy(r.name)
             p == indexInto(provinces, before.provinceIdx)
             label == IF named THEN r.name
                      ELSE IF truthy(p) THEN p
                      ELSE String(r.lat) \o <<",", " ">> \o String(r.lng)
             pin == [id |-> freshId(prev \o before.pins), lat |-> r.lat,
                     lng |-> r.lng, color |-> CATEGORY_MAP[category].color,
                     category |-> category, label |-> label,
                     province |-> IF named THEN undefined ELSE p,
                     customLabel |-> FALSE]
         IN [pins |-> Append(before.pins, pin),
             provinceIdx |-> IF named THEN before.provinceIdx
                             ELSE before.provinceIdx + 1]

\* Mutant of finalNewPins: only the first raw point becomes a pin.
finalNewPins_firstOnly(raw, provinces, category, prev) ==
    SubSeq(mapRaw(raw, Len(raw), provinces, category, prev).pins, 1, 1)

finalNewPins(raw, provinces, category, prev) ==
    mapRaw(raw, Len(raw), provinces, category, prev).pins

\* Line 157.
pointsNeedingProvince(raw) == SelectSeq(raw, LAMBDA r : ~truthy(r.name))

\* Reading provinces[provinceIdx] throws a TypeError when provinces is null and
\* some raw point has no name.
importThrows(raw, provinces) ==
    provinces.type = "null" /\ pointsNeedingProvince(raw) # << >>

\* Mutant of appendPins: the new points are put before the points present.
appendPins_prepend(prev, newPins) == renumber(newPins \o prev)

\* Mutant of appendPins: the new points follow the bulkPins of the closure.
appendPins_stale(prev, newPins) ==
    IF pending.active THEN renumber(pending.bulkPins \o newPins)
    ELSE prev \o newPins

\* Line 177: setBulkPins(prev => [...prev, ...finalNewPins])
appendPins(prev, newPins) == prev \o newPins

\* Lines 159-179: the handler from the resolver's answer on.
Resume(raw, category, response, importText) ==
    LET points == pointsNeedingProvince(raw)
        provinces == batchIdentifyProvinces(points, IS_MOCK, response)
    IN /\ lastOp' = [NoOp EXCEPT
                        !.op = IF importThrows(raw, provinces) THEN "importThrew"
                               ELSE "importDone",
                        !.n = Len(points),
                        !.response = response,
                        !.result = provinces,
                        !.importText = importText,
                        !.changedMeanwhile =
                            pending.active /\ pending.bulkPins # bulkPins]
       /\ pending' = NoCall
       /\ IF importThrows(raw, provinces)
          THEN /\ isGeocoding' = TRUE
               /\ UNCHANGED <<bulkPins, processedBulkPins, localStorage>>
          ELSE /\ bulkPins' = appendPins(bulkPins,
                                       finalNewPins(raw, provinces, category, bulkPins))
               /\ isGeocoding' = FALSE
               /\ Render(markers, bulkPins', FALSE, TRUE)

\* The resolver answers without the provider when no point needs a province or
\* when it runs as a mock; the await then resumes before any other event.
needsProvider(raw) == pointsNeedingProvince(raw) # << >> /\ ~IS_MOCK

\* Mutant of importDisabled: the button is never disabled.
importDisabled_never == FALSE

\* Line 364: disabled={isGeocoding}
importDisabled == isGeocoding

\* The whole handler when the provider is not called: the early return of line
\* 154, or the import from the text to the append.
HandleImportBulk(importText) ==
    LET raw == newPointsRawOf(importText) IN
    /\ ~importDisabled
    /\ Len(bulkPins) + Len(raw) <= MaxPins
    /\ IF Len(raw) = 0
       THEN /\ lastOp' = [Op("importNothing", 0) EXCEPT !.importText = importText]
            /\ UNCHANGED <<bulkPins, processedBulkPins, localStorage, isGeocoding,
                           pending>>
       ELSE /\ ~needsProvider(raw)
            /\ Resume(raw, selectedCategory, NoText, importText)
    /\ UNCHANGED <<markers, selectedCategory, IS_MOCK>>

\* Lines 129-159: the handler up to its await, when the provider is called.
HandleImportBulkAwait(importText) ==
    LET raw == newPointsRawOf(importText) IN
    /\ ~importDisabled
    /\ Len(bulkPins) + Len(raw) <= MaxPins
    /\ Len(raw) # 0
    /\ needsProvider(raw)
    /\ isGeocoding' = TRUE
    /\ pending' = [active |-> TRUE, newPointsRaw |-> raw,
                   category |-> selectedCategory, bulkPins |-> bulkPins,
                   importText |-> importText]
    /\ lastOp' = [Op("importAwait", 0) EXCEPT !.importText = importText]
    /\ UNCHANGED <<markers, bulkPins, processedBulkPins, selectedCategory,
                   localStorage, IS_MOCK>>

\* Lines 159-179: the provider answers and the handler resumes.
HandleImportBulkResume(response) ==
    /\ pending.active
    /\ Resume(pending.newPointsRaw, pending.category, response, pending.importText)
    /\ UNCHANGED <<markers, selectedCategory, IS_MOCK>>

----------------------------------------------------------------------------
(* Inputs *)

Site == <<"Site">>
Chonburi == <<"Chonburi">>
Phuket == <<"Phuket">>

\* Lines of an import text.
bareLine(lat) == <<decimalLiteral(lat), ",", " ", decimalLiteral(100)>>
namedLine(lat) == Site \o <<",", " ">> \o bareLine(lat)
urlLine(lat) == <<"maps", "@", decimalLiteral(lat), ",", decimalLiteral(100), ",", "15z">>
junkLine == <<"hello", " ", "13", ",", "100">>

joinLines(lines) == join(lines, <<"\n">>)

RECURSIVE seqsOf(_, _)
seqsOf(S, n) ==
    IF n <= 0 THEN {<< >>}
    ELSE {Append(s, x) : s \in seqsOf(S, n - 1), x \in S}

idsOf(list) == {list[k].id : k \in 1..Len(list)}

----------------------------------------------------------------------------
(* The application, with points on one coordinate: labels and the resolver *)

ZoneNames == {<<" ">>, <<"Hub">>}
PinNames == {<<" ">>, <<"Depot">>}

ImportTexts ==
    {joinLines(<<bareLine(50000)>>),
     joinLines(<<bareLine(50000), bareLine(50000)>>),
     joinLines(<<namedLine(50000)>>),
     joinLines(<<junkLine, << >> >>)}

\* The provider's answers to a batch of n points.
Responses(n) ==
    {Reject, NoText, Unparsable, JsonText(JsNull), JsonText(JsOther)}
    \cup {JsonText(JsArray(items)) : items \in seqsOf({Chonburi, Phuket}, n)}
    \cup {JsonText(JsArray(items)) : items \in seqsOf({Chonburi}, n - 1)}
    \cup {JsonText(JsArray(items)) : items \in seqsOf({Chonburi}, n + 1)}

Next ==
    \/ HandleAddRadiusMarker(0, 100, <<"HQ">>)
    \/ \E id \in idsOf(markers), name \in ZoneNames : HandleRenameRadius(id, name)
    \/ \E id \in idsOf(markers) : HandleRemoveRadius(id)
    \/ \E id \in idsOf(bulkPins), name \in PinNames : HandleRenamePin(id, name)
    \/ \E id \in idsOf(bulkPins) : HandleRemovePin(id)
    \/ \E text \in ImportTexts : HandleImportBulk(text)
    \/ \E text \in ImportTexts : HandleImportBulkAwait(text)
    \/ \E response \in Responses(Len(pointsNeedingProvince(pending.newPointsRaw))) :
          HandleImportBulkResume(response)

Spec == Init /\ [][Next]_vars

----------------------------------------------------------------------------
(* The application, with named points on several coordinates: coverage *)

HubLats == {0, 49999}
CoverageTexts == {joinLines(<<namedLine(lat)>>) : lat \in {50000, 100000, 100001}}

NextCoverage ==
    \/ \E lat \in HubLats : HandleAddRadiusMarker(lat, 100, << >>)
    \/ \E id \in idsOf(markers) : HandleRenameRadius(id, <<"HQ">>)
    \/ \E id \in idsOf(markers) : HandleRemoveRadius(id)
    \/ \E id \in idsOf(bulkPins) : HandleRenamePin(id, <<"Depot">>)
    \/ \E id \in idsOf(bulkPins) : HandleRemovePin(id)
    \/ \E text \in CoverageTexts : HandleImportBulk(text)

InitCoverage == Init /\ IS_MOCK

SpecCoverage == InitCoverage /\ [][NextCoverage]_vars

----------------------------------------------------------------------------
(* Coverage: C1 - C4, checked under SpecCoverage *)

\* The distances from a row's coordinate to every hub of the collection.
hubDistances(row) ==
    {getDistance(row.lat, row.lng, markers[i].lat, markers[i].lng) :
        i \in 1..Len(markers)}

minimumOf(D) == CHOOSE d \in D : \A e \in D : d <= e

\* The labels of the hubs whose distance to the row is within their primary
\* radius, in hub-collection order.
coveringLabelsOf(row) ==
    LET within == SelectSeq(markers,
                    LAMBDA m : getDistance(row.lat, row.lng, m.lat, m.lng) <= m.radius)
    IN [i \in 1..Len(within) |-> within[i].label]

rows == 1..Len(processedBulkPins)

\* C1: with a non-empty hub collection, every point's status is 'covered' iff
\* the distance to its nearest hub is <= 50,000 m, 'near' iff that distance is
\* > 50,000 m and <= 100,000 m, and 'none' otherwise.
C1_StatusByNearestDistance ==
    markers # << >> =>
        \A k \in rows :
            LET row == processedBulkPins[k]
                d == minimumOf(hubDistances(row))
            IN /\ (row.coverageStatus = "covered") <=> (d <= 50000)
               /\ (row.coverageStatus = "near") <=> (50000 < d /\ d <= 100000)
               /\ (row.coverageStatus = "none") <=> (100000 < d)

\* A point exactly 50,000 m from its nearest hub is covered while another, at
\* 100,001 m, is none.
C1_Witness ==
    \E j \in rows, k \in rows :
        /\ minimumOf(hubDistances(processedBulkPins[j]) \cup {Infinity}) = 50000
        /\ processedBulkPins[j].coverageStatus = "covered"
        /\ minimumOf(hubDistances(processedBulkPins[k]) \cup {Infinity}) = 100001
        /\ processedBulkPins[k].coverageStatus = "none"

\* C2: whenever the hub collection is empty, every point of the point
\* collection has status 'none', no nearest-hub label, no distance and an
\* empty covering set.
C2_NoHubsNoCoverage ==
    markers = << >> =>
        /\ Len(processedBulkPins) = Len(bulkPins)
        /\ \A k \in rows :
            /\ processedBulkPins[k].coverageStatus = "none"
            /\ processedBulkPins[k].nearestZone = undefined
            /\ processedBulkPins[k].distanceToNearest = undefinedNum
            /\ processedBulkPins[k].allZones = << >>

\* The last hub has just been removed while points exist.
C2_Witness ==
    /\ lastOp.op = "removeRadius"
    /\ markers = << >>
    /\ bulkPins # << >>

\* C3: every point's covering set holds the labels of exactly the hubs whose
\* distance to it is <= the hub's primary radius, in hub-collection order.
C3_CoveringSet ==
    \A k \in rows :
        processedBulkPins[k].allZones =
            join(coveringLabelsOf(processedBulkPins[k]), <<";", " ">>)

\* A point covered by two hubs, the nearest of which is the second one, lists
\* both.
C3_Witness ==
    \E k \in rows :
        /\ Len(coveringLabelsOf(processedBulkPins[k])) = 2
        /\ Len(markers) = 2
        /\ markers[1].label # markers[2].label
        /\ processedBulkPins[k].nearestZone = markers[2].label
        /\ processedBulkPins[k].allZones =
              markers[1].label \o <<";", " ">> \o markers[2].label

\* C4: in every state the derived fields of every point are the classification
\* of its coordinate against the current hub collection: the nearest-hub label
\* is the current label of a hub of the collection at the least distance.
C4_DerivedFieldsCurrent ==
    /\ Len(processedBulkPins) = Len(bulkPins)
    /\ \A k \in rows :
        LET row == processedBulkPins[k] IN
        /\ row.lat = bulkPins[k].lat /\ row.lng = bulkPins[k].lng
        /\ row.allZones = join(coveringLabelsOf(row), <<";", " ">>)
        /\ IF markers = << >>
           THEN /\ row.nearestZone = undefined
                /\ row.distanceToNearest = undefinedNum
                /\ row.coverageStatus = "none"
           ELSE LET d == minimumOf(hubDistances(row)) IN
                /\ row.distanceToNearest = d
                /\ \E i \in 1..Len(markers) :
                      /\ markers[i].label = row.nearestZone
                      /\ getDistance(row.lat, row.lng, markers[i].lat, markers[i].lng) = d
                /\ row.coverageStatus =
                      IF d <= 50000 THEN "covered"
                      ELSE IF d <= 100000 THEN "near" ELSE "none"

\* A hub has just been renamed and a point's nearest-hub label is the new name.
C4_Witness ==
    /\ lastOp.op = "renameRadius"
    /\ \E k \in rows : processedBulkPins[k].nearestZone = lastOp.name

----------------------------------------------------------------------------
(* Labels: C5 - C8, checked under Spec *)

\* Whether row k carries a resolved province and no explicit or customized name.
provinceLabelled(k) ==
    /\ truthy(processedBulkPins[k].province)
    /\ ~processedBulkPins[k].customLabel

\* The rank of row k among the province-labelled rows of its province, in
\* point-collection order.
rankInProvince(k) ==
    Cardinality({j \in 1..k :
        /\ provinceLabelled(j)
        /\ processedBulkPins[j].province = processedBulkPins[k].province})

\* C5: in every state, the labels of the points of one resolved province that
\* have no explicit or customized name are, in point-collection order, the
\* province name, then "<province> 2", "<province> 3", ...: pairwise distinct.
C5_ProvinceLabelsNumbered ==
    \A k \in rows :
        provinceLabelled(k) =>
            LET row == processedBulkPins[k]
                i == rankInProvince(k)
            IN /\ row.label = IF i = 1 THEN row.province
                              ELSE row.province \o <<" ", ToString(i)>>
               /\ \A j \in 1..(k - 1) :
                     (provinceLabelled(j) /\ processedBulkPins[j].province = row.province)
                        => processedBulkPins[j].label # row.label

\* Two points of province Chonburi are labelled "Chonburi" and "Chonburi 2".
C5_Witness ==
    /\ Len(processedBulkPins) = 2
    /\ processedBulkPins[1].label = <<"Chonburi">>
    /\ processedBulkPins[2].label = <<"Chonburi", " ", "2">>
    /\ provinceLabelled(1) /\ provinceLabelled(2)

\* The place after a step of the point that is at place j before it (0 when
\* the step removes it): a removal moves the later points up by one.
pinAfter(j) ==
    IF lastOp'.op = "removePin"
    THEN IF j < lastOp'.id THEN j ELSE IF j = lastOp'.id THEN 0 ELSE j - 1
    ELSE j

renamesPin(j) == lastOp'.op = "renamePin" /\ lastOp'.id = j

\* C6 as stated: no operation other than renaming a point changes the label
\* shown or exported for it.
C6_LabelFrozen ==
    [][\A j \in rows :
          (pinAfter(j) # 0 /\ ~renamesPin(j)) =>
              processedBulkPins'[pinAfter(j)].label = processedBulkPins[j].label]_vars

\* C6 as amended: the label shown for a point changes only when that point is
\* renamed, or when a point before it that shares its province and had no
\* customized name is removed or renamed; an import, an operation on a later
\* point and an operation on a hub never change it.
C6_LabelChangesOnlyByEarlierPoint ==
    [][\A j \in rows :
          (/\ pinAfter(j) # 0
           /\ processedBulkPins'[pinAfter(j)].label # processedBulkPins[j].label)
          => \/ renamesPin(j)
             \/ /\ lastOp'.op \in {"renamePin", "removePin"}
                /\ lastOp'.id < j
                /\ provinceLabelled(lastOp'.id) /\ provinceLabelled(j)
                /\ processedBulkPins[lastOp'.id].province = processedBulkPins[j].province]_vars

\* A one-point batch has been imported after a point of the same province: the
\* earlier point keeps "Chonburi" and the counter has run on to "Chonburi 2".
C6_Witness ==
    /\ lastOp.op = "importDone"
    /\ lastOp.n = 1
    /\ Len(processedBulkPins) = 2
    /\ processedBulkPins[1].label = <<"Chonburi">>
    /\ processedBulkPins[1].province = <<"Chonburi">>
    /\ processedBulkPins[2].label = <<"Chonburi", " ", "2">>
    /\ ~processedBulkPins[2].customLabel

\* C7: a rename with a non-blank name sets the customized flag and makes the
\* name the label; a customized point keeps flag and label through every step
\* that neither renames nor removes it.
C7_CustomLabelKept ==
    [][\A j \in rows :
          /\ renamesPin(j) =>
                /\ processedBulkPins'[j].customLabel
                /\ bulkPins'[j].customLabel
                /\ processedBulkPins'[j].label = lastOp'.name
                /\ trim(lastOp'.name) # << >>
          /\ (processedBulkPins[j].customLabel /\ pinAfter(j) # 0 /\ ~renamesPin(j)) =>
                /\ processedBulkPins'[pinAfter(j)].customLabel
                /\ processedBulkPins'[pinAfter(j)].label = processedBulkPins[j].label
                /\ processedBulkPins[j].label = bulkPins[j].label]_vars

\* A renamed point that has a resolved province still shows the user's name
\* after a later import.
C7_Witness ==
    /\ lastOp.op = "importDone"
    /\ \E k \in rows :
          /\ processedBulkPins[k].customLabel
          /\ truthy(processedBulkPins[k].province)
          /\ processedBulkPins[k].label = <<"Depot">>

\* C8: a rename of a hub or of a point whose name is empty after trimming
\* changes neither collection nor the persisted copies.
C8_BlankRenameRejected ==
    [][(/\ lastOp'.op \in {"renameRadius", "renameRadiusRejected",
                          "renamePin", "renamePinRejected"}
        /\ trim(lastOp'.name) = << >>)
       => UNCHANGED <<markers, bulkPins, processedBulkPins, localStorage>>]_vars

\* A point rename with the name " " has just been rejected.
C8_Witness ==
    /\ lastOp.op = "renamePinRejected"
    /\ lastOp.name = <<" ">>
    /\ bulkPins # << >>

----------------------------------------------------------------------------
(* The resolver: C9 and C10, checked under Spec *)

importResumed == lastOp.op \in {"importDone", "importThrew"}

\* C9: for a batch of n coordinates and every provider response the resolver
\* returns a sequence of exactly n strings.
C9_ResolverReturnsN ==
    importResumed =>
        /\ lastOp.result.type = "array"
        /\ Len(lastOp.result.items) = lastOp.n

\* A provider call that failed: a transport error, a text that is no JSON, or
\* JSON that is no array.
providerFailed ==
    /\ lastOp.n > 0
    /\ ~IS_MOCK
    /\ \/ lastOp.response.kind \in {"reject", "unparsable"}
       \/ /\ lastOp.response.kind = "json"
          /\ lastOp.response.value.type # "array"

\* C10: when the provider call fails in any way, the resolver returns n
\* sentinel strings and the import completes with them.
C10_FailureYieldsSentinels ==
    (importResumed /\ providerFailed) =>
        /\ lastOp.op = "importDone"
        /\ lastOp.result = JsArray([i \in 1..lastOp.n |-> UnknownProvince])

----------------------------------------------------------------------------
(* The application, with texts of every shape of line: the import pipeline *)

\* "maps@<lat>,100.0,15z", "Site 49999.0, 100.0 @<lat>,100.0",
\* "Site,, <lat>, 100.0", " <lat> , 100.0" and "@ <lat>, 100.0"
urlAfterBareLine(lat) ==
    Site \o <<" ">> \o bareLine(49999) \o <<" ", "@", decimalLiteral(lat), ",",
                                            decimalLiteral(100)>>
twoCommaLine(lat) == Site \o <<",", ",", " ">> \o bareLine(lat)
spacedLine(lat) == <<" ", decimalLiteral(lat), " ", ",", " ", decimalLiteral(100)>>
atLine(lat) == <<"@", " ">> \o bareLine(lat)

TwoLineText == joinLines(<<namedLine(100000), urlLine(50000)>>)

ParserTexts ==
    {joinLines(<<urlLine(50000)>>),
     joinLines(<<urlAfterBareLine(50000)>>),
     joinLines(<<namedLine(100000)>>),
     joinLines(<<twoCommaLine(50000)>>),
     joinLines(<<spacedLine(49999)>>),
     joinLines(<<atLine(50000)>>),
     joinLines(<<junkLine, <<" ">>, bareLine(49999)>>),
     joinLines(<<junkLine>>),
     TwoLineText}

ParserResponses(n) ==
    {Reject, JsonText(JsNull), JsonText(JsArray([i \in 1..n |-> Chonburi]))}

NextParser ==
    \/ \E text \in ParserTexts : HandleImportBulk(text)
    \/ \E text \in ParserTexts : HandleImportBulkAwait(text)
    \/ \E response \in ParserResponses(Len(pointsNeedingProvince(pending.newPointsRaw))) :
          HandleImportBulkResume(response)
    \/ \E id \in idsOf(bulkPins) : HandleRemovePin(id)

SpecParser == Init /\ [][NextParser]_vars

----------------------------------------------------------------------------
(* The import pipeline: C11, checked under SpecParser *)

\* The raw points of the import that a step completes: those of the suspended
\* call, or those of the text when the step is the whole handler.
rawCompleted ==
    IF pending.active THEN pending.newPointsRaw
    ELSE newPointsRawOf(lastOp'.importText)

\* C11: the step that issues the resolution batch leaves the point collection
\* alone, and until the import resumes only a point handler changes it; the
\* step that completes the import appends one point per parsed candidate, after
\* the points present and in the order of the lines; an import that does not
\* complete appends nothing.
C11_NoPartialUpdate ==
    [][/\ lastOp'.op = "importAwait" => bulkPins' = bulkPins
       /\ (pending.active /\ bulkPins' # bulkPins)
            => lastOp'.op \in {"importDone", "removePin", "renamePin"}
       /\ lastOp'.op = "importThrew" => bulkPins' = bulkPins
       /\ lastOp'.op = "importDone" =>
            /\ Len(bulkPins') = Len(bulkPins) + Len(rawCompleted)
            /\ SubSeq(bulkPins', 1, Len(bulkPins)) = bulkPins
            /\ \A i \in 1..Len(rawCompleted) :
                  LET new == bulkPins'[Len(bulkPins) + i] IN
                  /\ new.lat = rawCompleted[i].lat
                  /\ new.lng = rawCompleted[i].lng
                  /\ truthy(rawCompleted[i].name) => new.label = rawCompleted[i].name]_vars

\* The two-line text has been imported through the provider: its named point
\* and then its map-link point, both at once.
C11_Witness ==
    /\ lastOp.op = "importDone"
    /\ lastOp.importText = TwoLineText
    /\ ~IS_MOCK
    /\ Len(bulkPins) = 2
    /\ bulkPins[1].label = Site /\ bulkPins[1].lat = 100000
    /\ bulkPins[2].province = Chonburi /\ bulkPins[2].lat = 50000

----------------------------------------------------------------------------
(* The busy flag: C12, checked under Spec *)

importOps == {"importNothing", "importAwait", "importDone", "importThrew"}

\* C12: while a resolution is outstanding the busy flag is set and the import
\* button is disabled; the only step of handleImportBulk taken meanwhile is the
\* resumption of the suspended call, so no second batch is issued and no
\* other import runs before the first has resumed.
C12_OneBatchOutstanding ==
    [][/\ pending.active => (isGeocoding /\ importDisabled)
       /\ pending'.active => isGeocoding'
       /\ (pending.active /\ lastOp'.op \in importOps) =>
            /\ lastOp'.op \in {"importDone", "importThrew"}
            /\ lastOp'.importText = pending.importText
            /\ lastOp'.n = Len(pointsNeedingProvince(pending.newPointsRaw))
            /\ ~pending'.active]_vars

\* A hub has been added while a resolution is outstanding.
C12_Witness ==
    /\ pending.active
    /\ isGeocoding
    /\ lastOp.op = "addRadius"

----------------------------------------------------------------------------
(* The application, started from stored entries of every kind: persistence *)

storedHub == [id |-> 1, lat |-> 0, lng |-> 100, radius |-> 50000,
              outerRadius |-> 100000, label |-> <<"HQ">>]

storedPin == [id |-> 1, lat |-> 50000, lng |-> 100,
              color |-> CATEGORY_MAP["Request"].color, category |-> "Request",
              label |-> Chonburi, province |-> Chonburi, customLabel |-> FALSE]

StoredMarkerEntries ==
    {Missing, Invalid, StoredNull, StoredOther, stringifyMarkers(<<storedHub>>)}

StoredPinEntries ==
    {Missing, Invalid, StoredNull, StoredOther, stringifyPins(<<storedPin>>),
     stringifyPins(<<[storedPin EXCEPT !.label = <<"Depot">>, !.customLabel = TRUE]>>)}

StartupTexts == {joinLines(<<namedLine(50000)>>), joinLines(<<bareLine(50000)>>)}

\* The handlers belong to the mounted application.
mounted == lastOp.op # "mountThrew"

InitStartup ==
    \E em \in StoredMarkerEntries, ep \in StoredPinEntries : Mount(em, ep, TRUE)

NextStartup ==
    \/ mounted /\ HandleAddRadiusMarker(0, 100, << >>)
    \/ mounted /\ \E id \in idsOf(markers) : HandleRenameRadius(id, <<"Hub">>)
    \/ mounted /\ \E id \in idsOf(markers) : HandleRemoveRadius(id)
    \/ mounted /\ \E id \in idsOf(bulkPins) : HandleRenamePin(id, <<"Depot">>)
    \/ mounted /\ \E id \in idsOf(bulkPins) : HandleRemovePin(id)
    \/ mounted /\ \E text \in StartupTexts : HandleImportBulk(text)

SpecStartup == InitStartup /\ [][NextStartup]_vars

----------------------------------------------------------------------------
(* Persistence: C13 and C14, checked under SpecStartup *)

roundTrips ==
    /\ loadMarkers(localStorage.thaimap_markers) = markers
    /\ loadPins(localStorage.thaimap_pins) = bulkPins

\* C13: whatever the two stored entries hold, startup does not fail and the
\* loaded hub and point collections are arrays.
C13_StartupNeverFails ==
    lastOp.op \in {"mount", "mountThrew"} =>
        /\ lastOp.op = "mount"
        /\ roundTrips

\* C14: in every state of the mounted application, reading the two stored
\* entries back gives the hub collection and the point collection, equal in
\* every field and in order.
C14_RoundTrip == mounted => roundTrips

\* A point without a province has been renamed, so that its stored object has
\* no province member and a customized flag, next to a point with a province
\* and no flag.
C14_Witness ==
    /\ lastOp.op = "renamePin"
    /\ Len(bulkPins) = 2
    /\ \E j \in 1..2, k \in 1..2 :
          /\ bulkPins[j].province = undefined /\ bulkPins[j].customLabel
          /\ bulkPins[k].province # undefined /\ ~bulkPins[k].customLabel
    /\ markers # << >>

----------------------------------------------------------------------------
(* The application, with points of every category around two hubs: exports *)

ExportTexts == {joinLines(<<namedLine(lat)>>) : lat \in {50000, 99999}}

NextExport ==
    \/ \E lat \in HubLats : HandleAddRadiusMarker(lat, 100, << >>)
    \/ \E cat \in PinCategory : SetSelectedCategory(cat)
    \/ \E text \in ExportTexts : HandleImportBulk(text)
    \/ \E id \in idsOf(bulkPins) : HandleRemovePin(id)
    \/ HandleExportSummary

SpecExport == InitCoverage /\ [][NextExport]_vars

----------------------------------------------------------------------------
(* The summary export: C15, checked under SpecExport *)

\* The number of points of a category within 50,000 m of hub i.
withinOf(i, category) ==
    Cardinality({k \in 1..Len(bulkPins) :
        /\ bulkPins[k].category = category
        /\ Abs(bulkPins[k].lat - markers[i].lat) <= 50000})

expectedSummaryRow(i) ==
    <<"\"">> \o markers[i].label \o <<"\"", ",", ToString(markers[i].lat), ",",
      ToString(markers[i].lng), ",", ToString(withinOf(i, "Existing")), ",",
      ToString(withinOf(i, "Request")), ",", ToString(withinOf(i, "Pending")), ",",
      ToString(withinOf(i, "Outzone")), ",",
      ToString(withinOf(i, "Existing") + withinOf(i, "Request")
               + withinOf(i, "Pending") + withinOf(i, "Outzone"))>>

\* C15: the exported summary is the header followed by one row per hub, in
\* hub-collection order; the row of a hub holds, per category, the number of
\* points of that category within 50,000 m of that hub, and as its total the
\* sum of the four.
C15_SummaryPerHub ==
    lastOp.op = "exportSummary" =>
        lastOp.content =
            summaryHeader
            \o join([i \in 1..Len(markers) |-> expectedSummaryRow(i)], <<"\n">>)

\* The summary has been exported with a Request point in range of both hubs
\* and an Existing point in range of the second hub only.
C15_Witness ==
    /\ lastOp.op = "exportSummary"
    /\ Len(markers) = 2 /\ markers[1].lat = 0 /\ markers[2].lat = 49999
    /\ Len(bulkPins) = 2
    /\ bulkPins[1].lat = 50000 /\ bulkPins[1].category = "Request"
    /\ bulkPins[2].lat = 99999 /\ bulkPins[2].category = "Existing"
    /\ processedBulkPins[1].nearestZone = markers[2].label

----------------------------------------------------------------------------
(* The parser: C16, checked under SpecParser *)

\* A text with its trailing commas and whitespace, and its leading whitespace,
\* stripped.
RECURSIVE stripTrailing(_)
stripTrailing(s) ==
    IF s # << >> /\ s[Len(s)] \in WS \cup {","}
    THEN stripTrailing(SubSeq(s, 1, Len(s) - 1))
    ELSE trimStart(s)

\* The candidate the two patterns, in priority order, give for a line.
candidateOf(line) ==
    IF \E i \in 1..Len(line) : urlMatchAt(line, i)
    THEN LET i == CHOOSE i \in 1..Len(line) :
                    urlMatchAt(line, i) /\ \A j \in 1..(i - 1) : ~urlMatchAt(line, j)
         IN <<[lat |-> parseFloat(line[i + 1]), lng |-> parseFloat(line[i + 3]),
               name |-> undefined]>>
    ELSE IF \E i \in 1..Len(line) : latLngMatchAt(line, i) # 0
    THEN LET i == CHOOSE i \in 1..Len(line) :
                    latLngMatchAt(line, i) # 0
                    /\ \A j \in 1..(i - 1) : latLngMatchAt(line, j) = 0
             before == stripTrailing(SubSeq(line, 1, i - 1))
         IN <<[lat |-> parseFloat(line[i]),
               lng |-> parseFloat(line[latLngMatchAt(line, i)]),
               name |-> IF before # << >> THEN before ELSE undefined]>>
    ELSE << >>

RECURSIVE candidatesOf(_)
candidatesOf(lines) ==
    IF lines = << >> THEN << >>
    ELSE (IF \A i \in 1..Len(Head(lines)) : Head(lines)[i] \in WS THEN << >>
          ELSE candidateOf(Head(lines))) \o candidatesOf(Tail(lines))

\* C16: the raw points an import parses from its text are, line by line, the
\* candidates of the two patterns in priority order: a map link gives its
\* coordinates and no name; otherwise a bare pair gives its coordinates and, as
\* the name, the text before it with trailing commas and whitespace stripped,
\* when that is not empty; any other line gives nothing.
C16_ParserPriority ==
    [][LET expected == candidatesOf(split(lastOp'.importText)) IN
       /\ lastOp'.op = "importNothing" => expected = << >>
       /\ lastOp'.op = "importAwait" => pending'.newPointsRaw = expected
       /\ (lastOp'.op = "importDone" /\ ~pending.active) =>
            /\ Len(bulkPins') = Len(bulkPins) + Len(expected)
            /\ \A i \in 1..Len(expected) :
                  LET new == bulkPins'[Len(bulkPins) + i] IN
                  /\ new.lat = expected[i].lat
                  /\ new.lng = expected[i].lng
                  /\ IF truthy(expected[i].name)
                     THEN new.label = expected[i].name /\ new.province = undefined
                     ELSE new.province # undefined]_vars

----------------------------------------------------------------------------
(* The fallback label: C17, checked under Spec *)

rawLabel(pin) == <<ToString(pin.lat), ",", " ", ToString(pin.lng)>>

\* The place in the resolver's batch of the i-th raw point of the import that
\* a step completes.
batchPlace(i) == Len(pointsNeedingProvince(SubSeq(rawCompleted, 1, i)))

\* The province the resolver's result of the step holds for that place, if any.
resolvedFor(i) ==
    IF lastOp'.result.type = "array" /\ batchPlace(i) <= Len(lastOp'.result.items)
    THEN lastOp'.result.items[batchPlace(i)]
    ELSE undefined

\* Whether the provider gave a province for that place: geocoding did not fail
\* and its answer holds a non-empty name there.
geocodedFor(i) ==
    /\ IS_MOCK \/ (lastOp'.response.kind = "json" /\ lastOp'.response.value.type = "array")
    /\ truthy(resolvedFor(i))

----------------------------------------------------------------------------
(* Ties: C18, checked under SpecCoverage *)

distanceTo(row, i) == getDistance(row.lat, row.lng, markers[i].lat, markers[i].lng)

\* The first hub, in hub-collection order, at the least distance from the row.
firstNearest(row) ==
    CHOOSE i \in 1..Len(markers) :
        /\ \A j \in 1..Len(markers) : distanceTo(row, i) <= distanceTo(row, j)
        /\ \A j \in 1..(i - 1) : distanceTo(row, j) > distanceTo(row, i)

\* C18: with a non-empty hub collection, every point's nearest-hub distance
\* is the least of its distances to the hubs, and its nearest-hub label is the
\* label of the first hub, in hub-collection order, at that distance.
C18_FirstNearestWins ==
    markers # << >> =>
        \A k \in rows :
            LET row == processedBulkPins[k] IN
            /\ row.distanceToNearest = distanceTo(row, firstNearest(row))
            /\ row.nearestZone = markers[firstNearest(row)].label

\* Two hubs with different labels are equally far from a point, whose
\* nearest-hub label is that of the first.
C18_Witness ==
    /\ Len(markers) = 2
    /\ markers[1].label # markers[2].label
    /\ \E k \in rows :
          /\ distanceTo(processedBulkPins[k], 1) = distanceTo(processedBulkPins[k], 2)
          /\ processedBulkPins[k].nearestZone = markers[1].label

----------------------------------------------------------------------------
(* The application, with hubs only: names typed with and without blanks *)

NewHubNames == {<< >>, <<" ">>, <<" ", "HQ", " ">>}
RenamedHubNames == {<< >>, <<" ">>, <<" ", "Hub">>, <<"Hub">>}

NextHubs ==
    \/ \E lat \in HubLats, name \in NewHubNames : HandleAddRadiusMarker(lat, 100, name)
    \/ \E id \in idsOf(markers), name \in RenamedHubNames : HandleRenameRadius(id, name)
    \/ \E id \in idsOf(markers) : HandleRemoveRadius(id)

SpecHubs == Init /\ [][NextHubs]_vars

----------------------------------------------------------------------------
(* Hubs: C19, checked under SpecHubs *)

\* C19: after every map click, hub rename and hub removal, every hub has
\* primary radius 50,000 m, extended radius 100,000 m and a label that is not
\* empty after trimming; a hub created while the typed name is blank is
\* labelled "Radius Zone <number of hubs before the click + 1>".
C19_HubInvariants ==
    [][/\ \A i \in 1..Len(markers') :
            /\ markers'[i].radius = 50000
            /\ markers'[i].outerRadius = 100000
            /\ markers'[i].radius < markers'[i].outerRadius
            /\ trim(markers'[i].label) # << >>
       /\ (lastOp'.op = "addRadius" /\ trim(lastOp'.name) = << >>) =>
            /\ Len(markers') = Len(markers) + 1
            /\ markers'[Len(markers')].label =
                  <<"Radius", " ", "Zone", " ", ToString(Len(markers) + 1)>>]_vars

\* A second hub has been created while the typed name was a blank, next to a
\* hub that was renamed.
C19_Witness ==
    /\ lastOp.op = "addRadius"
    /\ lastOp.name = <<" ">>
    /\ Len(markers) = 2
    /\ markers[1].label = <<" ", "Hub">>
    /\ markers[2].label = <<"Radius", " ", "Zone", " ", "2">>

----------------------------------------------------------------------------
(* Changes made during the wait: C20, checked under Spec *)

\* C20: the step in which a suspended import completes keeps every point of
\* the collection as it stands at that step, in order, whatever the collection
\* was when the batch was issued, and adds one point per raw point after them;
\* no step of an import changes the hub collection.
C20_ChangesDuringWaitKept ==
    [][/\ (pending.active /\ lastOp'.op = "importDone") =>
            /\ Len(bulkPins') = Len(bulkPins) + Len(pending.newPointsRaw)
            /\ SubSeq(bulkPins', 1, Len(bulkPins)) = bulkPins
            /\ \A k \in 1..Len(bulkPins) :
                  processedBulkPins'[k].customLabel = bulkPins[k].customLabel
       /\ lastOp'.op \in importOps => markers' = markers]_vars

\* An import has completed after the only point present when its batch was
\* issued had been removed: the collection holds the new point alone.
C20_Witness ==
    /\ lastOp.op = "importDone"
    /\ lastOp.changedMeanwhile
    /\ lastOp.n = 1
    /\ Len(bulkPins) = 1
    /\ markers # << >>

----------------------------------------------------------------------------
(* The application under fair scheduling: the provider's promise settles *)

\* The call to the provider settles (it resolves or it rejects), and the
\* awaiting handler is then resumed by the event loop.
ProviderSettles ==
    WF_vars(\E response \in Responses(Len(pointsNeedingProvince(pending.newPointsRaw))) :
                HandleImportBulkResume(response))

SpecLive == Init /\ [][Next]_vars /\ ProviderSettles

----------------------------------------------------------------------------
(* The busy flag: C21, checked under SpecLive *)

\* C21: whenever the busy flag is set, it is cleared again later, whatever the
\* resolver hands back.
C21_BusyFlagEventuallyCleared == isGeocoding ~> ~isGeocoding

====
